---- MODULE Spec2Model ----
(***************************************************************************)
(* Transaction / listing / rating lifecycle of the marketplace in          *)
(* src/app.py: the users, cars, transactions and transaction_ratings       *)
(* tables and the request handlers that write them, then the favorites,    *)
(* recent_views, message_threads and messages tables and their handlers.   *)
(* One action is one HTTP request handled to completion.                   *)
(***************************************************************************)
EXTENDS Integers, FiniteSets, Sequences, TLC

VARIABLES
    users,          \* users table: id -> [verified, is_admin, phone]
    cars,           \* cars table: id -> [user_id, status, price, description, phone]
    transactions,   \* transactions table: id -> [car_id, seller_id, buyer_id, status]
    ratings,        \* transaction_ratings table: id -> row
    carSeq,         \* AUTOINCREMENT high-water mark of cars.id
    txSeq,          \* AUTOINCREMENT high-water mark of transactions.id
    ratingSeq,      \* AUTOINCREMENT high-water mark of transaction_ratings.id
    last,           \* the response to the latest request: [op, flash, returns, row]
    favorites,      \* favorites table: set of <<user_id, car_id>> (the primary key)
    recent_views,   \* recent_views table: set of <<user_id, car_id>> (the primary key)
    threads,        \* message_threads table: id -> [car_id, seller_id, buyer_id]
    messages,       \* messages table: id -> [thread_id, sender_id, recipient_id,
                    \*                        body, read_at]
    threadSeq,      \* AUTOINCREMENT high-water mark of message_threads.id
    msgSeq,         \* AUTOINCREMENT high-water mark of messages.id
    request,        \* the caller and listing of the latest request, if that is a
                    \* toggle_favorite or a new_message, and whether it repeats
                    \* the request before it: [user, id, again]
    before,         \* the favorites table as the latest request found it
    calls           \* the requests being handled by a worker, between two of
                    \* their database statements: worker -> Idle or
                    \* [op, pc, user, car_id, party]

vars == <<users, cars, transactions, ratings, carSeq, txSeq, ratingSeq, last,
          favorites, recent_views, threads, messages, threadSeq, msgSeq,
          request, before, calls>>

tables == <<users, cars, transactions, ratings, carSeq, txSeq, ratingSeq>>

----------------------------------------------------------------------------
(* Bounds of the model. *)

MaxUsers == 3
MaxCars == 1
MaxTx == 2
MaxRatings == 2
MaxThreads == 2
MaxMsgs == 3
MaxCalls == 2

----------------------------------------------------------------------------
(* Program constants. *)

CAR_STATUS_ACTIVE == "active"
CAR_STATUS_COMPLETED == "completed"

\* The completed sales verify_seller asks for (completed_sales < 5).
MinCompletedSales == 5

\* A form field that is not a string of digits (str.isdigit() is False).
NonDigit == -1

\* The values a numeric form field or URL id can take in the model.
UserInputs == {NonDigit} \cup (0 .. MaxUsers)
CarInputs == 1 .. MaxCars
TxInputs == 1 .. MaxTx
RatingInputs == {NonDigit} \cup (1 .. MaxRatings)

\* Rating forms a client can post: two valid ones, one with a score out of
\* range and one with a score that is not a number.
RateForms ==
    << [reliability |-> 5, accuracy |-> 5, communication |-> 5, product |-> 5,
        comment |-> "great"],
       [reliability |-> 4, accuracy |-> 3, communication |-> 2, product |-> 1,
        comment |-> ""],
       [reliability |-> 3, accuracy |-> 3, communication |-> 3, product |-> 6,
        comment |-> ""],
       [reliability |-> NonDigit, accuracy |-> 3, communication |-> 3, product |-> 3,
        comment |-> "great"] >>

FormInputs == DOMAIN RateForms

\* Listing forms a client can post (the fields as stripped by the handler):
\* two complete ones and one whose description is missing.
ListingForms ==
    << [price |-> 100, description |-> "a"],
       [price |-> 200, description |-> "b"],
       [price |-> 300, description |-> ""] >>

\* New listings are posted with the first form; an edit posts any of them.
AddInputs == {1}

\* A request that posts no file.
NoImages == {"none"}

\* The phone a profile form can post.
PhoneInputs == {"", "555"}
EditInputs == DOMAIN ListingForms

\* The files posted with an edit: none, one that validate_images refuses,
\* more than fifteen valid ones.
ImageInputs == {"none", "invalid", "too_many"}

ThreadInputs == 1 .. MaxThreads

\* Message bodies a client can post, as sequences of characters.
BodyInputs == { <<>>, <<" ">>, <<" ", "h", " ">> }

\* A read_at that is NULL, and the timestamp a mark-as-read writes.
NULL == "NULL"
utcnow == "utcnow"

----------------------------------------------------------------------------
(* Table helpers. *)

EmptyTable == [x \in {} |-> 0]

\* INSERT of one row under a fresh primary key.
InsertRow(table, id, row) ==
    [x \in DOMAIN table \cup {id} |-> IF x = id THEN row ELSE table[x]]

\* DELETE of the rows whose primary key is in ids.
DeleteRows(table, ids) == [x \in DOMAIN table \ ids |-> table[x]]

\* What a view function answers: the message it flashes ("" for none), the
\* endpoint it redirects to (or the value it returns) and the primary key of
\* the row it wrote or deleted (0 for none).
Response(op, flash, returns, row) ==
    [op |-> op, flash |-> flash, returns |-> returns, row |-> row]

\* A worker that is handling no request, and the workers.
Idle == [op |-> "idle", pc |-> "idle", user |-> 0, car_id |-> 0, party |-> 0]
Workers == 1 .. MaxCalls

\* The request history after a request of another handler.
NoRequest == [user |-> 0, id |-> 0, again |-> FALSE]

\* The request history after the request op(user, id).
Request(op, user, id) ==
    [user |-> user, id |-> id,
     again |-> last.op = op /\ request.user = user /\ request.id = id]

----------------------------------------------------------------------------
(* Lookups. *)

\* get_user_by_id: None for a falsy id or an id with no row.
get_user_by_id(user_id) == user_id # 0 /\ user_id \in DOMAIN users

\* get_car_by_id: the row exists.
get_car_by_id(car_id) == car_id \in DOMAIN cars

admin_required(u) == u \in DOMAIN users /\ users[u].is_admin

----------------------------------------------------------------------------
(* Init: the tables as init_db leaves them, with the seeded admin account. *)

Init ==
    /\ users = [x \in {1} |-> [verified |-> TRUE, is_admin |-> TRUE, phone |-> ""]]
    /\ cars = EmptyTable
    /\ transactions = EmptyTable
    /\ ratings = EmptyTable
    /\ carSeq = 0
    /\ txSeq = 0
    /\ ratingSeq = 0
    /\ last = Response("init_db", "", "", 0)
    /\ favorites = {}
    /\ recent_views = {}
    /\ threads = EmptyTable
    /\ messages = EmptyTable
    /\ threadSeq = 0
    /\ msgSeq = 0
    /\ request = NoRequest
    /\ before = {}
    /\ calls = [k \in Workers |-> Idle]

----------------------------------------------------------------------------
(* POST /register: a new account, not verified, not admin. *)

register ==
    /\ Cardinality(DOMAIN users) < MaxUsers
    /\ LET id == Cardinality(DOMAIN users) + 1 IN
        /\ users' = InsertRow(users, id, [verified |-> FALSE, is_admin |-> FALSE,
                                          phone |-> ""])
        /\ last' = Response("register", "Registration successful. You can now log in.",
                             "login", id)
    /\ UNCHANGED <<cars, transactions, ratings, carSeq, txSeq, ratingSeq>>

(* POST /add-listing by a logged-in user: a new car row, status active, with
   the contact fields of the caller's profile.  The INSERT runs before the
   posted files are looked at; when validate_images refuses one, or there are
   more than fifteen, the handler returns inside the "with conn" block, which
   commits the INSERT. *)

add_listing(u, f, images) ==
    /\ carSeq < MaxCars
    /\ cars' = InsertRow(cars, carSeq + 1,
                         [user_id |-> u, status |-> CAR_STATUS_ACTIVE,
                          price |-> ListingForms[f].price,
                          description |-> ListingForms[f].description,
                          phone |-> users[u].phone])
    /\ carSeq' = carSeq + 1
    /\ last' = IF images = "invalid"
               THEN Response("add_listing", "Only JPG and PNG images are allowed.",
                             "add_listing.html", carSeq + 1)
               ELSE IF images = "too_many"
               THEN Response("add_listing", "You can upload up to 15 photos.",
                             "add_listing.html", carSeq + 1)
               ELSE Response("add_listing", "", "my_listings", carSeq + 1)
    /\ UNCHANGED <<users, transactions, ratings, txSeq, ratingSeq>>

\* UPDATE cars SET phone = ?, city = ?, country = ? WHERE user_id = ?
SetContact(table, user_id, phone) ==
    [x \in DOMAIN table |->
        IF table[x].user_id = user_id
        THEN [table[x] EXCEPT !.phone = phone]
        ELSE table[x]]

\* POST /profile: the contact fields of the caller (phone, city and country,
\* written together; phone stands for the three) are stored in the caller's
\* row and copied to every listing of the caller.
profile(u, phone) ==
    /\ users' = [users EXCEPT ![u].phone = phone]
    /\ cars' = SetContact(cars, u, phone)
    /\ last' = Response("profile", "", "profile", u)
    /\ UNCHANGED <<transactions, ratings, carSeq, txSeq, ratingSeq>>

----------------------------------------------------------------------------
(* POST /car/<car_id>/complete: the seller reserves the listing for a buyer. *)

\* Mutant: the buyer field may name the caller.
complete_car_flash_selfbuyer(u, car_id, buyer_id) ==
    IF ~get_car_by_id(car_id) THEN "Listing not found."
    ELSE IF cars[car_id].user_id # u THEN "You can only update your own listings."
    ELSE IF buyer_id = NonDigit THEN "Please select a valid buyer."
    ELSE IF ~get_user_by_id(buyer_id) THEN "Buyer not found."
    ELSE ""

\* The flash message of the early return complete_car takes, "" when it takes
\* none: listing missing, caller not the owner, buyer field not a number or
\* the caller, buyer account missing.
complete_car_flash(u, car_id, buyer_id) ==
    IF ~get_car_by_id(car_id) THEN "Listing not found."
    ELSE IF cars[car_id].user_id # u THEN "You can only update your own listings."
    ELSE IF buyer_id = NonDigit \/ buyer_id = u THEN "Please select a valid buyer."
    ELSE IF ~get_user_by_id(buyer_id) THEN "Buyer not found."
    ELSE ""

\* Mutant: the row is inserted already completed.
NewTransaction_completed(car_id, seller_id, buyer_id) ==
    [car_id |-> car_id, seller_id |-> seller_id, buyer_id |-> buyer_id,
     status |-> "completed"]

\* The row complete_car inserts into transactions.
NewTransaction(car_id, seller_id, buyer_id) ==
    [car_id |-> car_id, seller_id |-> seller_id, buyer_id |-> buyer_id,
     status |-> "pending"]

\* UPDATE cars SET status = ? WHERE id = ? (no row, no change).
SetCarStatus(table, car_id, status) ==
    [x \in DOMAIN table |->
        IF x = car_id THEN [table[x] EXCEPT !.status = status] ELSE table[x]]

complete_car(u, car_id, buyer_id) ==
    LET flash == complete_car_flash(u, car_id, buyer_id) IN
    IF flash # ""
    THEN /\ last' = Response("complete_car", flash,
                             IF flash = "Listing not found."
                             THEN "my_listings" ELSE "car_details", 0)
         /\ UNCHANGED tables
    ELSE /\ txSeq < MaxTx
         /\ cars' = SetCarStatus(cars, car_id, CAR_STATUS_COMPLETED)
         /\ transactions' = InsertRow(transactions, txSeq + 1,
                                      NewTransaction(car_id, u, buyer_id))
         /\ txSeq' = txSeq + 1
         /\ last' = Response("complete_car", "", "my_listings", txSeq + 1)
         /\ UNCHANGED <<users, ratings, carSeq, ratingSeq>>

----------------------------------------------------------------------------
(* Deleting a listing. *)

\* The transactions of a car (SELECT id FROM transactions WHERE car_id = ?).
TxOfCar(car_id) == {t \in DOMAIN transactions : transactions[t].car_id = car_id}

\* The ratings of a set of transactions.
RatingsOfTx(tx_ids) == {r \in DOMAIN ratings : ratings[r].transaction_id \in tx_ids}

\* Mutant: the ratings of the car's transactions are left behind.
CascadeDelete_keepratings(car_id) ==
    IF ~get_car_by_id(car_id)
    THEN UNCHANGED <<cars, transactions, ratings>>
    ELSE /\ transactions' = DeleteRows(transactions, TxOfCar(car_id))
         /\ cars' = DeleteRows(cars, {car_id})
         /\ UNCHANGED ratings

\* The cascade of remove_car_record: ratings of the car's transactions, the
\* transactions, then the car; nothing when the car does not exist.
CascadeDelete(car_id) ==
    IF ~get_car_by_id(car_id)
    THEN UNCHANGED <<cars, transactions, ratings>>
    ELSE /\ ratings' = DeleteRows(ratings, RatingsOfTx(TxOfCar(car_id)))
         /\ transactions' = DeleteRows(transactions, TxOfCar(car_id))
         /\ cars' = DeleteRows(cars, {car_id})

\* POST /car/<car_id>/delete.  remove_car_record is the first view function
\* registered on this rule, so it is the one a request reaches; it looks at
\* no caller identity (the before_request hook only requires a session).
remove_car_record(u, car_id) ==
    /\ last' = Response("remove_car_record", "",
                         IF get_car_by_id(car_id) THEN "True" ELSE "False",
                         IF get_car_by_id(car_id) THEN car_id ELSE 0)
    /\ CascadeDelete(car_id)
    /\ UNCHANGED <<users, carSeq, txSeq, ratingSeq>>

\* POST /admin/delete-car: admins only, car_id a string of digits.
admin_delete_car(u, car_id) ==
    /\ last' = Response("admin_delete_car", "",
                         IF admin_required(u) THEN "admin_panel" ELSE "main_page",
                         IF admin_required(u) /\ car_id # NonDigit /\ get_car_by_id(car_id)
                         THEN car_id ELSE 0)
    /\ IF ~admin_required(u) \/ car_id = NonDigit
       THEN UNCHANGED tables
       ELSE /\ CascadeDelete(car_id)
            /\ UNCHANGED <<users, carSeq, txSeq, ratingSeq>>

\* POST /admin/delete-rating: admins only, rating_id a string of digits.
admin_delete_rating(u, rating_id) ==
    /\ last' = Response("admin_delete_rating", "",
                         IF admin_required(u) THEN "admin_panel" ELSE "main_page",
                         IF admin_required(u) /\ rating_id \in DOMAIN ratings
                         THEN rating_id ELSE 0)
    /\ IF ~admin_required(u) \/ rating_id = NonDigit
       THEN UNCHANGED tables
       ELSE /\ ratings' = DeleteRows(ratings, {rating_id})
            /\ UNCHANGED <<users, cars, transactions, carSeq, txSeq, ratingSeq>>

----------------------------------------------------------------------------
(* POST /transaction/<id>/rate. *)

\* Mutant: the upper limit is off by one.
ValidScore_upto6(score) == score # NonDigit /\ 1 <= score /\ score <= 6

\* score.isdigit() and 1 <= int(score) <= 5
ValidScore(score) == score # NonDigit /\ 1 <= score /\ score <= 5

ValidScores(form) ==
    /\ ValidScore(form.reliability)
    /\ ValidScore(form.accuracy)
    /\ ValidScore(form.communication)
    /\ ValidScore(form.product)

\* Mutant: the status of the transaction is not looked at.
rate_rejected_nostatus(u, tx_id) ==
    \/ tx_id \notin DOMAIN transactions
    \/ transactions[tx_id].buyer_id # u

\* not tx or tx.buyer_id != user.id or tx.status != "completed"
rate_rejected(u, tx_id) ==
    \/ tx_id \notin DOMAIN transactions
    \/ transactions[tx_id].buyer_id # u
    \/ transactions[tx_id].status # "completed"

\* The row the INSERT of rate_transaction proposes.
RatingRow(tx_id, form) ==
    [transaction_id |-> tx_id,
     seller_id |-> transactions[tx_id].seller_id,
     buyer_id |-> transactions[tx_id].buyer_id,
     reliability |-> form.reliability,
     accuracy |-> form.accuracy,
     communication |-> form.communication,
     product |-> form.product,
     comment |-> form.comment]

\* The rows that conflict with a proposed row on the UNIQUE transaction_id.
Conflicting(row) ==
    {r \in DOMAIN ratings : ratings[r].transaction_id = row.transaction_id}

\* ON CONFLICT(transaction_id) DO UPDATE SET the four scores and the comment.
UpdatedRating(old, row) ==
    [old EXCEPT !.reliability = row.reliability,
                !.accuracy = row.accuracy,
                !.communication = row.communication,
                !.product = row.product,
                !.comment = row.comment]

\* The primary key of the row the upsert writes.
WrittenRating(row) ==
    IF Conflicting(row) # {}
    THEN CHOOSE r \in Conflicting(row) : TRUE
    ELSE ratingSeq + 1

\* Mutant: a plain INSERT on a table without the UNIQUE constraint.
UpsertRating_insert(row) ==
    /\ ratingSeq < MaxRatings
    /\ ratings' = InsertRow(ratings, ratingSeq + 1, row)
    /\ ratingSeq' = ratingSeq + 1

\* INSERT ... ON CONFLICT(transaction_id) DO UPDATE.
UpsertRating(row) ==
    IF Conflicting(row) # {}
    THEN /\ ratings' = [r \in DOMAIN ratings |->
                          IF r \in Conflicting(row)
                          THEN UpdatedRating(ratings[r], row)
                          ELSE ratings[r]]
         /\ UNCHANGED ratingSeq
    ELSE /\ ratingSeq < MaxRatings
         /\ ratings' = InsertRow(ratings, ratingSeq + 1, row)
         /\ ratingSeq' = ratingSeq + 1

rate_transaction(u, tx_id, f) ==
    IF ~ValidScores(RateForms[f])
    THEN /\ last' = Response("rate_transaction",
                             "All ratings must be between 1 and 5.", "profile", 0)
         /\ UNCHANGED tables
    ELSE IF rate_rejected(u, tx_id)
    THEN /\ last' = Response("rate_transaction",
                             "You can only rate your own completed purchases.",
                             "profile", 0)
         /\ UNCHANGED tables
    ELSE /\ UpsertRating(RatingRow(tx_id, RateForms[f]))
         /\ last' = Response("rate_transaction", "Thanks for your rating!", "profile",
                             WrittenRating(RatingRow(tx_id, RateForms[f])))
         /\ UNCHANGED <<users, cars, transactions, carSeq, txSeq>>

----------------------------------------------------------------------------
(* POST /transaction/<id>/confirm and /cancel. *)

\* Mutant: the UPDATE has no WHERE clause.
SetTxStatus_all(table, tx_id, status) ==
    [x \in DOMAIN table |-> [table[x] EXCEPT !.status = status]]

\* UPDATE transactions SET status = ? WHERE id = ?
SetTxStatus(table, tx_id, status) ==
    [x \in DOMAIN table |->
        IF x = tx_id THEN [table[x] EXCEPT !.status = status] ELSE table[x]]

\* not tx or tx.buyer_id != user.id
confirm_rejected(u, tx_id) ==
    \/ tx_id \notin DOMAIN transactions
    \/ transactions[tx_id].buyer_id # u

confirm_transaction(u, tx_id) ==
    IF confirm_rejected(u, tx_id)
    THEN /\ last' = Response("confirm_transaction",
                             "You can only confirm your own purchase.", "profile", 0)
         /\ UNCHANGED tables
    ELSE /\ transactions' = SetTxStatus(transactions, tx_id, "completed")
         /\ last' = Response("confirm_transaction", "", "profile", tx_id)
         /\ UNCHANGED <<users, cars, ratings, carSeq, txSeq, ratingSeq>>

\* Mutant: any logged-in user may cancel an existing transaction.
cancel_rejected_anyone(u, tx_id) == tx_id \notin DOMAIN transactions

\* not tx or (tx.buyer_id != user.id and tx.seller_id != user.id)
cancel_rejected(u, tx_id) ==
    \/ tx_id \notin DOMAIN transactions
    \/ /\ transactions[tx_id].buyer_id # u
       /\ transactions[tx_id].seller_id # u

\* Mutant: the listing is not put back on sale.
CancelUpdates_norelist(tx_id) ==
    /\ transactions' = SetTxStatus(transactions, tx_id, "canceled")
    /\ UNCHANGED cars

\* The two UPDATEs of cancel_transaction.
CancelUpdates(tx_id) ==
    /\ transactions' = SetTxStatus(transactions, tx_id, "canceled")
    /\ cars' = SetCarStatus(cars, transactions[tx_id].car_id, CAR_STATUS_ACTIVE)

cancel_transaction(u, tx_id) ==
    IF cancel_rejected(u, tx_id)
    THEN /\ last' = Response("cancel_transaction",
                             "You can only cancel your own transaction.", "profile", 0)
         /\ UNCHANGED tables
    ELSE /\ CancelUpdates(tx_id)
         /\ last' = Response("cancel_transaction", "", "profile", tx_id)
         /\ UNCHANGED <<users, ratings, carSeq, txSeq, ratingSeq>>

----------------------------------------------------------------------------
(* POST /verify and POST /admin/verify. *)

\* Mutant: the COUNT has no condition on the status.
completed_sales_anystatus(u) ==
    Cardinality({t \in DOMAIN transactions : transactions[t].seller_id = u})

\* SELECT COUNT(*) FROM transactions WHERE seller_id = ? AND status = 'completed'
completed_sales(u) ==
    Cardinality({t \in DOMAIN transactions :
                    /\ transactions[t].seller_id = u
                    /\ transactions[t].status = "completed"})

verify_seller(u, agree) ==
    IF agree # "yes"
    THEN /\ last' = Response("verify_seller",
                             "Please confirm the verification terms.", "profile", 0)
         /\ UNCHANGED tables
    ELSE IF completed_sales(u) < MinCompletedSales
    THEN /\ last' = Response("verify_seller",
                             "You need at least 5 completed transactions to verify.",
                             "profile", 0)
         /\ UNCHANGED tables
    ELSE /\ users' = [users EXCEPT ![u].verified = TRUE]
         /\ last' = Response("verify_seller", "Your seller profile is now verified.",
                             "profile", u)
         /\ UNCHANGED <<cars, transactions, ratings, carSeq, txSeq, ratingSeq>>

\* UPDATE users SET verified = ? WHERE id = ? (no row, no change), the value
\* being 1 if the form says "1" and 0 otherwise.
SetVerified(table, user_id, value) ==
    [x \in DOMAIN table |->
        IF x = user_id THEN [table[x] EXCEPT !.verified = (value = "1")] ELSE table[x]]

admin_verify_user(u, user_id, value) ==
    /\ last' = Response("admin_verify_user", "",
                         IF admin_required(u) THEN "admin_panel" ELSE "main_page",
                         IF admin_required(u) /\ user_id \in DOMAIN users
                         THEN user_id ELSE 0)
    /\ IF ~admin_required(u) \/ user_id = NonDigit
       THEN UNCHANGED tables
       ELSE /\ users' = SetVerified(users, user_id, value)
            /\ UNCHANGED <<cars, transactions, ratings, carSeq, txSeq, ratingSeq>>

----------------------------------------------------------------------------
(* POST /car/<car_id>/edit. *)

\* Mutant: the status of the listing is not looked at.
edit_car_flash_nostatus(u, car_id) ==
    IF ~get_car_by_id(car_id) THEN "Listing not found."
    ELSE IF cars[car_id].user_id # u THEN "You can only edit your own listings."
    ELSE ""

\* The flash message of the early return edit_car takes before it reads the
\* form, "" when it takes none.
edit_car_flash(u, car_id) ==
    IF ~get_car_by_id(car_id) THEN "Listing not found."
    ELSE IF cars[car_id].user_id # u THEN "You can only edit your own listings."
    ELSE IF cars[car_id].status # CAR_STATUS_ACTIVE
    THEN "Completed listings cannot be edited."
    ELSE ""

\* missing = [label for label, value in required_fields.items() if not value]
MissingFields(form) == form.description = ""

\* Mutant: the UPDATE also writes the status column.
UpdateCar_status(table, car_id, form) ==
    [x \in DOMAIN table |->
        IF x = car_id
        THEN [table[x] EXCEPT !.price = form.price,
                              !.description = form.description,
                              !.status = CAR_STATUS_COMPLETED]
        ELSE table[x]]

\* UPDATE cars SET price = ?, ..., description = ? WHERE id = ?
UpdateCar(table, car_id, form) ==
    [x \in DOMAIN table |->
        IF x = car_id
        THEN [table[x] EXCEPT !.price = form.price,
                              !.description = form.description]
        ELSE table[x]]

\* The UPDATE runs before the posted files are looked at.  A file that
\* validate_images refuses makes the handler return inside the "with conn"
\* block, which commits the UPDATE; more than fifteen files roll it back.
edit_car(u, car_id, f, images) ==
    LET flash == edit_car_flash(u, car_id) IN
    IF flash # ""
    THEN /\ last' = Response("edit_car", flash,
                             IF flash = "Listing not found."
                             THEN "catalog" ELSE "car_details", 0)
         /\ UNCHANGED tables
    ELSE IF MissingFields(ListingForms[f])
    THEN /\ last' = Response("edit_car", "Missing fields: description",
                             "edit_listing.html", 0)
         /\ UNCHANGED tables
    ELSE IF images = "too_many"
    THEN /\ last' = Response("edit_car", "You can upload up to 15 photos total.",
                             "edit_listing.html", 0)
         /\ UNCHANGED tables
    ELSE /\ cars' = UpdateCar(cars, car_id, ListingForms[f])
         /\ last' = IF images = "invalid"
                    THEN Response("edit_car", "Only JPG and PNG images are allowed.",
                                  "edit_listing.html", car_id)
                    ELSE Response("edit_car", "", "car_details", car_id)
         /\ UNCHANGED <<users, transactions, ratings, carSeq, txSeq, ratingSeq>>

----------------------------------------------------------------------------
(* Favorites and recently viewed listings. *)

\* The tables of the handlers above and the messaging tables.
others == <<users, cars, transactions, ratings, carSeq, txSeq, ratingSeq,
            threads, messages, threadSeq, msgSeq, calls>>

\* INSERT ... ON CONFLICT(user_id, car_id) DO UPDATE SET viewed_at; nothing
\* for a falsy id.
record_recent_view(user_id, car_id) ==
    IF user_id = 0 \/ car_id = 0
    THEN recent_views
    ELSE recent_views \cup {<<user_id, car_id>>}

\* GET /car/<car_id>: the page of a listing.
car_details(u, car_id) ==
    /\ IF ~get_car_by_id(car_id)
       THEN /\ last' = Response("car_details", "Listing not found.", "catalog", 0)
            /\ UNCHANGED recent_views
       ELSE /\ last' = Response("car_details", "", "car_details.html", car_id)
            /\ recent_views' = record_recent_view(u, car_id)
    /\ request' = NoRequest
    /\ before' = favorites
    /\ UNCHANGED <<favorites, others>>

\* Mutant: the status of the listing is not looked at.
toggle_rejected_nostatus(car_id) == ~get_car_by_id(car_id)

\* not car or car["status"] != CAR_STATUS_ACTIVE
toggle_rejected(car_id) ==
    \/ ~get_car_by_id(car_id)
    \/ cars[car_id].status # CAR_STATUS_ACTIVE

\* Mutant: the row is inserted whether or not it exists (INSERT OR IGNORE).
ToggleRow_insert(table, user_id, car_id) == table \cup {<<user_id, car_id>>}

\* DELETE the favorites row of (user_id, car_id) if there is one, INSERT it
\* otherwise.
ToggleRow(table, user_id, car_id) ==
    IF <<user_id, car_id>> \in table
    THEN table \ {<<user_id, car_id>>}
    ELSE table \cup {<<user_id, car_id>>}

\* POST /favorite/<car_id>.
toggle_favorite(u, car_id) ==
    /\ IF toggle_rejected(car_id)
       THEN /\ last' = Response("toggle_favorite", "Listing not found.", "catalog", 0)
            /\ UNCHANGED favorites
       ELSE /\ last' = Response("toggle_favorite", "", "catalog", car_id)
            /\ favorites' = ToggleRow(favorites, u, car_id)
    /\ request' = Request("toggle_favorite", u, car_id)
    /\ before' = favorites
    /\ UNCHANGED <<recent_views, others>>

----------------------------------------------------------------------------
(* Messaging. *)

\* The tables the messaging handlers leave alone.
unmessaged == <<users, cars, transactions, ratings, carSeq, txSeq, ratingSeq,
                favorites, recent_views, calls>>

\* str.strip() on a sequence of characters.
RECURSIVE lstrip(_)
lstrip(body) ==
    IF body # <<>> /\ Head(body) = " " THEN lstrip(Tail(body)) ELSE body

RECURSIVE rstrip(_)
rstrip(body) ==
    IF body # <<>> /\ body[Len(body)] = " "
    THEN rstrip(SubSeq(body, 1, Len(body) - 1))
    ELSE body

strip(body) == rstrip(lstrip(body))

\* SELECT id FROM message_threads WHERE car_id = ? AND seller_id = ? AND
\* buyer_id = ?
ThreadsOf(car_id, seller_id, buyer_id) ==
    {t \in DOMAIN threads :
        threads[t] = [car_id |-> car_id, seller_id |-> seller_id,
                      buyer_id |-> buyer_id]}

\* The id get_or_create_thread returns: the first row of the SELECT if it has
\* one, the id of the inserted row otherwise.
thread_id_of(car_id, seller_id, buyer_id) ==
    LET found == ThreadsOf(car_id, seller_id, buyer_id) IN
    IF found # {}
    THEN CHOOSE t \in found : \A x \in found : t <= x
    ELSE threadSeq + 1

\* Mutant: a plain INSERT, without the SELECT.
get_or_create_thread_insert(car_id, seller_id, buyer_id) ==
    /\ threadSeq < MaxThreads
    /\ threads' = InsertRow(threads, threadSeq + 1,
                            [car_id |-> car_id, seller_id |-> seller_id,
                             buyer_id |-> buyer_id])
    /\ threadSeq' = threadSeq + 1

\* What get_or_create_thread does to the table.
get_or_create_thread(car_id, seller_id, buyer_id) ==
    IF ThreadsOf(car_id, seller_id, buyer_id) # {}
    THEN UNCHANGED <<threads, threadSeq>>
    ELSE /\ threadSeq < MaxThreads
         /\ threads' = InsertRow(threads, threadSeq + 1,
                                 [car_id |-> car_id, seller_id |-> seller_id,
                                  buyer_id |-> buyer_id])
         /\ threadSeq' = threadSeq + 1

\* GET /messages/new?car_id=...: the thread of the caller with the owner of a
\* listing.
new_message(u, car_id) ==
    /\ IF car_id = NonDigit \/ ~get_car_by_id(car_id)
       THEN /\ last' = Response("new_message", "", "catalog", 0)
            /\ UNCHANGED <<threads, threadSeq>>
       ELSE IF cars[car_id].user_id = u
       THEN /\ last' = Response("new_message", "You cannot message yourself.",
                                "car_details", 0)
            /\ UNCHANGED <<threads, threadSeq>>
       ELSE /\ get_or_create_thread(car_id, cars[car_id].user_id, u)
            /\ last' = Response("new_message", "", "message_thread",
                                thread_id_of(car_id, cars[car_id].user_id, u))
    /\ request' = Request("new_message", u, car_id)
    /\ before' = favorites
    /\ UNCHANGED <<messages, msgSeq, unmessaged>>

\* not thread or (thread.seller_id != user.id and thread.buyer_id != user.id)
thread_rejected(u, thread_id) ==
    \/ thread_id \notin DOMAIN threads
    \/ /\ threads[thread_id].seller_id # u
       /\ threads[thread_id].buyer_id # u

\* Mutant: the recipient is always the seller of the thread.
recipient_id_seller(u, thread_id) == threads[thread_id].seller_id

\* thread.buyer_id if thread.seller_id == user.id else thread.seller_id
recipient_id(u, thread_id) ==
    IF threads[thread_id].seller_id = u
    THEN threads[thread_id].buyer_id
    ELSE threads[thread_id].seller_id

\* Mutant: the UPDATE has no "read_at IS NULL" and flips the column.
MarkRead_flip(table, thread_id, user_id) ==
    [m \in DOMAIN table |->
        IF /\ table[m].thread_id = thread_id
           /\ table[m].recipient_id = user_id
        THEN [table[m] EXCEPT !.read_at = IF @ = NULL THEN utcnow ELSE NULL]
        ELSE table[m]]

\* Mutant: the UPDATE does not filter on the thread.
MarkRead_anythread(table, thread_id, user_id) ==
    [m \in DOMAIN table |->
        IF table[m].recipient_id = user_id /\ table[m].read_at = NULL
        THEN [table[m] EXCEPT !.read_at = utcnow]
        ELSE table[m]]

\* UPDATE messages SET read_at = ? WHERE thread_id = ? AND recipient_id = ?
\* AND read_at IS NULL
MarkRead(table, thread_id, user_id) ==
    [m \in DOMAIN table |->
        IF /\ table[m].thread_id = thread_id
           /\ table[m].recipient_id = user_id
           /\ table[m].read_at = NULL
        THEN [table[m] EXCEPT !.read_at = utcnow]
        ELSE table[m]]

\* GET and POST /messages/<thread_id>: a GET marks the caller's unread
\* messages of the thread as read and shows the thread, a POST adds a message.
message_thread(u, thread_id, method, body) ==
    /\ IF thread_rejected(u, thread_id)
       THEN /\ last' = Response("message_thread", "Thread not found.", "messages", 0)
            /\ UNCHANGED <<messages, msgSeq>>
       ELSE IF method = "POST" /\ strip(body) # <<>>
       THEN /\ msgSeq < MaxMsgs
            /\ messages' = InsertRow(messages, msgSeq + 1,
                                     [thread_id |-> thread_id,
                                      sender_id |-> u,
                                      recipient_id |-> recipient_id(u, thread_id),
                                      body |-> strip(body),
                                      read_at |-> NULL])
            /\ msgSeq' = msgSeq + 1
            /\ last' = Response("message_thread", "", "message_thread", msgSeq + 1)
       ELSE IF method = "POST"
       THEN /\ last' = Response("message_thread", "", "message_thread", 0)
            /\ UNCHANGED <<messages, msgSeq>>
       ELSE /\ messages' = MarkRead(messages, thread_id, u)
            /\ last' = Response("message_thread", "", "message_thread.html", 0)
            /\ UNCHANGED msgSeq
    /\ request' = NoRequest
    /\ before' = favorites
    /\ UNCHANGED <<threads, threadSeq, unmessaged>>

\* inject_unread_count: SELECT COUNT(*) FROM messages WHERE recipient_id = ?
\* AND read_at IS NULL
unread_count(table, user_id) ==
    Cardinality({m \in DOMAIN table :
                    table[m].recipient_id = user_id /\ table[m].read_at = NULL})

----------------------------------------------------------------------------
(* Requests handled by several workers at once.  A worker runs one handler;
   the statements it executes on its own connection are the steps, and other
   workers' steps can come between them. *)

\* What a step of a worker leaves alone besides the tables it names.
unworked == <<favorites, recent_views, messages, msgSeq, request, before>>

\* No worker holds the write lock of the cars database: none has executed a
\* write statement it has not committed.  A handler that writes waits for the
\* lock; when the wait times out its statement raises and nothing is written.
WriteLockFree ==
    \A k \in Workers : calls[k].pc # "updated"

\* A request a worker has started: the handler, the statement it has reached,
\* the caller, the listing and the other user it names.
Call(op, pc, user, car_id, party) ==
    [op |-> op, pc |-> pc, user |-> user, car_id |-> car_id, party |-> party]

\* GET /messages/new, up to and with the SELECT of get_or_create_thread.  The
\* request ends here unless the SELECT finds no row.
new_message_select(k, u, car_id) ==
    /\ calls[k] = Idle
    /\ IF car_id = NonDigit \/ ~get_car_by_id(car_id)
       THEN /\ last' = Response("new_message", "", "catalog", 0)
            /\ UNCHANGED calls
       ELSE IF cars[car_id].user_id = u
       THEN /\ last' = Response("new_message", "You cannot message yourself.",
                                "car_details", 0)
            /\ UNCHANGED calls
       ELSE IF ThreadsOf(car_id, cars[car_id].user_id, u) # {}
       THEN /\ last' = Response("new_message", "", "message_thread",
                                thread_id_of(car_id, cars[car_id].user_id, u))
            /\ UNCHANGED calls
       ELSE /\ calls' = [calls EXCEPT ![k] =
                           Call("new_message", "selected", u, car_id,
                                cars[car_id].user_id)]
            /\ UNCHANGED last
    /\ UNCHANGED <<users, cars, transactions, ratings, carSeq, txSeq, ratingSeq,
                   threads, threadSeq, unworked>>

\* The INSERT and commit of get_or_create_thread, and the redirect.
new_message_insert(k) ==
    /\ calls[k].op = "new_message"
    /\ threadSeq < MaxThreads
    /\ threads' = InsertRow(threads, threadSeq + 1,
                            [car_id |-> calls[k].car_id,
                             seller_id |-> calls[k].party,
                             buyer_id |-> calls[k].user])
    /\ threadSeq' = threadSeq + 1
    /\ last' = Response("new_message", "", "message_thread", threadSeq + 1)
    /\ calls' = [calls EXCEPT ![k] = Idle]
    /\ UNCHANGED <<users, cars, transactions, ratings, carSeq, txSeq, ratingSeq,
                   unworked>>

\* POST /car/<car_id>/complete, up to the end of its checks: the reads of
\* the listing and of the buyer.  The request ends here when a check fails.
complete_car_check(k, u, car_id, buyer_id) ==
    LET flash == complete_car_flash(u, car_id, buyer_id) IN
    /\ calls[k] = Idle
    /\ IF flash # ""
       THEN /\ last' = Response("complete_car", flash,
                                IF flash = "Listing not found."
                                THEN "my_listings" ELSE "car_details", 0)
            /\ UNCHANGED calls
       ELSE /\ calls' = [calls EXCEPT ![k] =
                           Call("complete_car", "checked", u, car_id, buyer_id)]
            /\ UNCHANGED last
    /\ UNCHANGED <<tables, threads, threadSeq, unworked>>

\* Mutant: the connection commits each statement as it executes it.
UncommittedUpdate_autocommit(table, car_id) ==
    SetCarStatus(table, car_id, CAR_STATUS_COMPLETED)

\* The cars table other connections read once a worker has executed the
\* UPDATE of complete_car: the UPDATE opens a transaction on the worker's
\* connection and stays there until conn.commit().
UncommittedUpdate(table, car_id) == table

\* The UPDATE of complete_car: takes the write lock.
complete_car_update(k) ==
    /\ calls[k].op = "complete_car"
    /\ calls[k].pc = "checked"
    /\ WriteLockFree
    /\ txSeq < MaxTx
    /\ calls' = [calls EXCEPT ![k].pc = "updated"]
    /\ cars' = UncommittedUpdate(cars, calls[k].car_id)
    /\ UNCHANGED <<users, transactions, ratings, carSeq, txSeq, ratingSeq, last,
                   threads, threadSeq, unworked>>

\* The INSERT of complete_car, conn.commit() and the redirect: the UPDATE and
\* the INSERT reach the database together.
complete_car_commit(k) ==
    /\ calls[k].op = "complete_car"
    /\ calls[k].pc = "updated"
    /\ cars' = SetCarStatus(cars, calls[k].car_id, CAR_STATUS_COMPLETED)
    /\ transactions' = InsertRow(transactions, txSeq + 1,
                                 NewTransaction(calls[k].car_id, calls[k].user,
                                                calls[k].party))
    /\ txSeq' = txSeq + 1
    /\ last' = Response("complete_car", "", "my_listings", txSeq + 1)
    /\ calls' = [calls EXCEPT ![k] = Idle]
    /\ UNCHANGED <<users, ratings, carSeq, ratingSeq, threads, threadSeq, unworked>>

----------------------------------------------------------------------------
(* Every request is made by a logged-in user (enforce_session_timeout). *)

\* The handlers above write none of the favorites and messaging tables and
\* are handled from their first statement to their commit in one step.
Quiet ==
    /\ UNCHANGED <<favorites, recent_views, threads, messages, threadSeq, msgSeq,
                   calls>>
    /\ request' = NoRequest
    /\ before' = favorites

Next ==
    \/ register /\ Quiet
    \/ \E u \in DOMAIN users, f \in AddInputs, i \in NoImages :
            add_listing(u, f, i) /\ Quiet
    \/ \E u \in DOMAIN users, c \in CarInputs, b \in UserInputs :
            complete_car(u, c, b) /\ Quiet
    \/ \E u \in DOMAIN users, c \in CarInputs : remove_car_record(u, c) /\ Quiet
    \/ \E u \in DOMAIN users, c \in {NonDigit} \cup CarInputs :
            admin_delete_car(u, c) /\ Quiet
    \/ \E u \in DOMAIN users, r \in RatingInputs : admin_delete_rating(u, r) /\ Quiet
    \/ \E u \in DOMAIN users, t \in TxInputs, f \in FormInputs :
            rate_transaction(u, t, f) /\ Quiet
    \/ \E u \in DOMAIN users, t \in TxInputs : confirm_transaction(u, t) /\ Quiet
    \/ \E u \in DOMAIN users, t \in TxInputs : cancel_transaction(u, t) /\ Quiet

Spec == Init /\ [][Next]_vars

\* The handlers that write the stored fields of a listing, with those that
\* write what they read: the owner and the status of a car.
NextEdit ==
    \/ register /\ Quiet
    \/ \E u \in DOMAIN users, f \in AddInputs, i \in ImageInputs :
            add_listing(u, f, i) /\ Quiet
    \/ \E u \in DOMAIN users, c \in CarInputs, b \in UserInputs :
            complete_car(u, c, b) /\ Quiet
    \/ \E u \in DOMAIN users, t \in TxInputs : cancel_transaction(u, t) /\ Quiet
    \/ \E u \in DOMAIN users, c \in CarInputs : remove_car_record(u, c) /\ Quiet
    \/ \E u \in DOMAIN users, c \in CarInputs, f \in EditInputs, i \in ImageInputs :
            edit_car(u, c, f, i) /\ Quiet
    \/ \E u \in DOMAIN users, p \in PhoneInputs : profile(u, p) /\ Quiet

SpecEdit == Init /\ [][NextEdit]_vars

\* The favorites and recent views, with the handlers that write what
\* toggle_favorite and car_details read: the existence and status of a car.
NextFav ==
    \/ register /\ Quiet
    \/ \E u \in DOMAIN users, f \in AddInputs, i \in NoImages :
            add_listing(u, f, i) /\ Quiet
    \/ \E u \in DOMAIN users, c \in CarInputs, b \in UserInputs :
            complete_car(u, c, b) /\ Quiet
    \/ \E u \in DOMAIN users, t \in TxInputs : cancel_transaction(u, t) /\ Quiet
    \/ \E u \in DOMAIN users, c \in CarInputs : remove_car_record(u, c) /\ Quiet
    \/ \E u \in DOMAIN users, c \in CarInputs : toggle_favorite(u, c)
    \/ \E u \in DOMAIN users, c \in CarInputs : car_details(u, c)

SpecFav == Init /\ [][NextFav]_vars

\* Messaging, with the handlers that write what new_message reads: the
\* existence and the owner of a car.
NextMsg ==
    \/ register /\ Quiet
    \/ \E u \in DOMAIN users, f \in AddInputs, i \in NoImages :
            add_listing(u, f, i) /\ Quiet
    \/ \E u \in DOMAIN users, c \in CarInputs : remove_car_record(u, c) /\ Quiet
    \/ \E u \in DOMAIN users, c \in {NonDigit} \cup CarInputs : new_message(u, c)
    \/ \E u \in DOMAIN users, t \in ThreadInputs : message_thread(u, t, "GET", <<>>)
    \/ \E u \in DOMAIN users, t \in ThreadInputs, body \in BodyInputs :
            message_thread(u, t, "POST", body)

SpecMsg == Init /\ [][NextMsg]_vars

\* Seller verification.  It takes five completed sales, more transactions
\* than the other specifications make, so this one starts where a seller
\* (user 2) has reserved a listing five times for user 3, who has confirmed
\* three of the reservations; the two others are pending or canceled.
InitVerify ==
    /\ users = [x \in 1 .. 3 |->
                  [verified |-> (x = 1), is_admin |-> (x = 1), phone |-> ""]]
    /\ cars = [x \in {1} |->
                 [user_id |-> 2, status |-> CAR_STATUS_COMPLETED,
                  price |-> ListingForms[1].price,
                  description |-> ListingForms[1].description, phone |-> ""]]
    /\ \E s1, s2 \in {"pending", "canceled"} :
         transactions = [t \in 1 .. MinCompletedSales |->
                           [car_id |-> 1, seller_id |-> 2, buyer_id |-> 3,
                            status |-> IF t = 1 THEN s1
                                       ELSE IF t = 2 THEN s2 ELSE "completed"]]
    /\ ratings = EmptyTable
    /\ carSeq = 1
    /\ txSeq = MinCompletedSales
    /\ ratingSeq = 0
    /\ last = Response("confirm_transaction", "", "profile", MinCompletedSales)
    /\ favorites = {}
    /\ recent_views = {}
    /\ threads = EmptyTable
    /\ messages = EmptyTable
    /\ threadSeq = 0
    /\ msgSeq = 0
    /\ request = NoRequest
    /\ before = {}
    /\ calls = [k \in Workers |-> Idle]

\* The verification handlers, with those that write what verify_seller reads:
\* the seller and the status of a transaction.
NextVerify ==
    \/ \E u \in DOMAIN users, t \in TxInputs : confirm_transaction(u, t) /\ Quiet
    \/ \E u \in DOMAIN users, t \in TxInputs : cancel_transaction(u, t) /\ Quiet
    \/ \E u \in DOMAIN users, c \in CarInputs : remove_car_record(u, c) /\ Quiet
    \/ \E u \in DOMAIN users, agree \in {"yes", ""} : verify_seller(u, agree) /\ Quiet
    \/ \E u \in DOMAIN users, x \in UserInputs, value \in {"1", "0"} :
            admin_verify_user(u, x, value) /\ Quiet

SpecVerify == InitVerify /\ [][NextVerify]_vars

\* get_or_create_thread called by several workers at once, with the handlers
\* that write what new_message reads.
NextThreads ==
    \/ register /\ Quiet
    \/ \E u \in DOMAIN users, f \in AddInputs, i \in NoImages :
            add_listing(u, f, i) /\ Quiet
    \/ \E u \in DOMAIN users, c \in CarInputs : remove_car_record(u, c) /\ Quiet
    \/ \E k \in Workers, u \in DOMAIN users, c \in {NonDigit} \cup CarInputs :
            new_message_select(k, u, c)
    \/ \E k \in Workers : new_message_insert(k)

SpecThreads == Init /\ [][NextThreads]_vars

\* complete_car handled by several workers statement by statement, with the
\* handlers that write the cars or the transactions table.
NextAtomic ==
    \/ register /\ Quiet
    \/ \E u \in DOMAIN users, f \in AddInputs, i \in NoImages :
            add_listing(u, f, i) /\ Quiet /\ WriteLockFree
    \/ \E u \in DOMAIN users, c \in CarInputs :
            remove_car_record(u, c) /\ Quiet /\ WriteLockFree
    \/ \E u \in DOMAIN users, c \in {NonDigit} \cup CarInputs :
            admin_delete_car(u, c) /\ Quiet /\ WriteLockFree
    \/ \E u \in DOMAIN users, t \in TxInputs :
            cancel_transaction(u, t) /\ Quiet /\ WriteLockFree
    \/ \E k \in Workers, u \in DOMAIN users, c \in CarInputs, b \in UserInputs :
            complete_car_check(k, u, c, b)
    \/ \E k \in Workers : complete_car_update(k)
    \/ \E k \in Workers : complete_car_commit(k)

SpecAtomic == Init /\ [][NextAtomic]_vars

\* Every handler that writes the cars, transactions or ratings table.
NextListing ==
    \/ Next
    \/ \E u \in DOMAIN users, c \in CarInputs, f \in EditInputs, i \in ImageInputs :
            edit_car(u, c, f, i) /\ Quiet

SpecListing == Init /\ [][NextListing]_vars

----------------------------------------------------------------------------
(* Properties of the transaction lifecycle. *)

\* The statuses of the cars and of the transactions, row by row.
CarStatus == [c \in DOMAIN cars |-> cars[c].status]
TxStatus == [t \in DOMAIN transactions |-> transactions[t].status]

\* The transactions of a car that are pending or completed.
LiveTx(c) ==
    {t \in DOMAIN transactions :
        transactions[t].car_id = c /\ transactions[t].status # "canceled"}

\* C1: a reserve (complete_car) on a listing whose status is completed, by any
\* caller and naming any buyer, leaves the set of transactions and every
\* listing's status unchanged.
C1_ReserveOnCompletedCreatesNothing ==
    [][last'.op = "complete_car" =>
       \A u \in DOMAIN users, c \in CarInputs, b \in UserInputs :
        (/\ c \in DOMAIN cars
         /\ cars[c].status = "completed"
         /\ complete_car(u, c, b))
        => /\ transactions' = transactions
           /\ CarStatus' = CarStatus]_vars

\* C2: every Rating row refers to a transaction whose current status is
\* completed.
C2_RatingOnlyOfCompleted ==
    \A r \in DOMAIN ratings :
        /\ ratings[r].transaction_id \in DOMAIN transactions
        /\ transactions[ratings[r].transaction_id].status = "completed"

\* C3: a listing's status is completed if and only if at least one transaction
\* referencing it is pending or completed.
C3_ListingMirrorsLiveTx ==
    \A c \in DOMAIN cars : (cars[c].status = "completed") <=> (LiveTx(c) # {})

\* C4: each listing has at most one transaction that is pending or completed.
C4_AtMostOneLiveTx ==
    \A c \in DOMAIN cars : Cardinality(LiveTx(c)) <= 1

\* C5: a cancel by the buyer or the seller of a transaction that is already
\* canceled changes no transaction's status and no listing's status.
C5_CancelIdempotent ==
    [][last'.op = "cancel_transaction" =>
       \A u \in DOMAIN users, t \in TxInputs :
        (/\ t \in DOMAIN transactions
         /\ transactions[t].status = "canceled"
         /\ u \in {transactions[t].buyer_id, transactions[t].seller_id}
         /\ cancel_transaction(u, t))
        => /\ TxStatus' = TxStatus
           /\ CarStatus' = CarStatus]_vars

\* C6: once a transaction's status is canceled, no step changes it to pending
\* or completed.
C6_CanceledIsTerminal ==
    [][\A t \in DOMAIN transactions :
        (transactions[t].status = "canceled" /\ t \in DOMAIN transactions')
        => transactions'[t].status = "canceled"]_vars

\* C7: a reserve by the owner of an active listing, naming an existing user
\* other than the caller, sets the listing's status to completed and creates
\* exactly one transaction: pending, on that listing, the caller as seller and
\* the named user as buyer; no other listing or transaction changes.
C7_ReserveActive ==
    [][last'.op = "complete_car" =>
       \A u \in DOMAIN users, c \in CarInputs, b \in UserInputs :
        (/\ c \in DOMAIN cars
         /\ cars[c].user_id = u
         /\ cars[c].status = "active"
         /\ b \in DOMAIN users
         /\ b # u
         /\ complete_car(u, c, b))
        => /\ DOMAIN cars' = DOMAIN cars
           /\ cars'[c] = [cars[c] EXCEPT !.status = "completed"]
           /\ \A x \in DOMAIN cars \ {c} : cars'[x] = cars[x]
           /\ Cardinality(DOMAIN transactions' \ DOMAIN transactions) = 1
           /\ \A t \in DOMAIN transactions' \ DOMAIN transactions :
                transactions'[t] = [car_id |-> c, seller_id |-> u, buyer_id |-> b,
                                    status |-> "pending"]
           /\ \A t \in DOMAIN transactions :
                t \in DOMAIN transactions' /\ transactions'[t] = transactions[t]]_vars

\* C7 witness: the first reservation has just been accepted, on a listing that
\* was active until then.
C7_Witness ==
    /\ last = Response("complete_car", "", "my_listings", 1)
    /\ DOMAIN transactions = {1}
    /\ transactions[1].status = "pending"
    /\ transactions[1].seller_id # transactions[1].buyer_id
    /\ cars[transactions[1].car_id].status = "completed"

\* C8: a cancel by the buyer or the seller of a pending or completed
\* transaction sets it to canceled and the listing it references to active; no
\* other transaction's status changes.
C8_CancelLive ==
    [][last'.op = "cancel_transaction" =>
       \A u \in DOMAIN users, t \in TxInputs :
        (/\ t \in DOMAIN transactions
         /\ transactions[t].status \in {"pending", "completed"}
         /\ u \in {transactions[t].buyer_id, transactions[t].seller_id}
         /\ cancel_transaction(u, t))
        => /\ DOMAIN transactions' = DOMAIN transactions
           /\ transactions'[t].status = "canceled"
           /\ transactions[t].car_id \in DOMAIN cars'
           /\ cars'[transactions[t].car_id].status = "active"
           /\ \A x \in DOMAIN transactions \ {t} :
                transactions'[x].status = transactions[x].status]_vars

\* C8 witness: the only transaction there has ever been was just canceled by
\* one of its parties and its listing is on sale again.
C8_Witness ==
    /\ last = Response("cancel_transaction", "", "profile", 1)
    /\ txSeq = 1
    /\ DOMAIN transactions = {1}
    /\ transactions[1].status = "canceled"
    /\ cars[transactions[1].car_id].status = "active"

\* C9: a rate request on a transaction that does not exist, or by a caller who
\* is not its buyer, or whose status is pending or canceled, creates and
\* modifies no Rating row.
C9_RateRejected ==
    [][last'.op = "rate_transaction" =>
       \A u \in DOMAIN users, t \in TxInputs, f \in FormInputs :
        (/\ \/ t \notin DOMAIN transactions
            \/ transactions[t].buyer_id # u
            \/ transactions[t].status \in {"pending", "canceled"}
         /\ rate_transaction(u, t, f))
        => ratings' = ratings]_vars

\* C9 witness: a rate request with valid scores was just refused while no
\* transaction was completed, one being pending and one canceled.
C9_Witness ==
    /\ last = Response("rate_transaction",
                       "You can only rate your own completed purchases.", "profile", 0)
    /\ \E t \in DOMAIN transactions : transactions[t].status = "pending"
    /\ \E t \in DOMAIN transactions : transactions[t].status = "canceled"
    /\ ratings = EmptyTable

\* At most one Rating row per transaction.
OneRatingPerTx ==
    \A r1, r2 \in DOMAIN ratings :
        ratings[r1].transaction_id = ratings[r2].transaction_id => r1 = r2

\* C10: there is at most one Rating per transaction, and a successful rate by
\* the buyer on a transaction that already has a Rating replaces that row's
\* four scores and comment by the posted ones and adds no row.
C10_RateUpserts ==
    /\ []OneRatingPerTx
    /\ [][last'.op = "rate_transaction" =>
          \A u \in DOMAIN users, t \in TxInputs, f \in FormInputs :
            (/\ t \in DOMAIN transactions
             /\ transactions[t].buyer_id = u
             /\ transactions[t].status = "completed"
             /\ {RateForms[f].reliability, RateForms[f].accuracy,
                 RateForms[f].communication, RateForms[f].product} \subseteq 1 .. 5
             /\ \E r \in DOMAIN ratings : ratings[r].transaction_id = t
             /\ rate_transaction(u, t, f))
            => /\ DOMAIN ratings' = DOMAIN ratings
               /\ \A r \in DOMAIN ratings :
                    ratings'[r] =
                        IF ratings[r].transaction_id = t
                        THEN [ratings[r] EXCEPT
                                !.reliability = RateForms[f].reliability,
                                !.accuracy = RateForms[f].accuracy,
                                !.communication = RateForms[f].communication,
                                !.product = RateForms[f].product,
                                !.comment = RateForms[f].comment]
                        ELSE ratings[r]]_vars

\* C10 witness: a successful rate has just rewritten rating 1 although rating 2
\* had been inserted since, so it was an update of an existing row.
C10_Witness ==
    /\ last = Response("rate_transaction", "Thanks for your rating!", "profile", 1)
    /\ DOMAIN ratings = {1, 2}
    /\ ratings[1].transaction_id # ratings[2].transaction_id

\* C11: a confirm by the buyer of a transaction sets that transaction's status
\* to completed and leaves every listing's status, every other transaction and
\* all ratings unchanged.
C11_ConfirmByBuyer ==
    [][last'.op = "confirm_transaction" =>
       \A u \in DOMAIN users, t \in TxInputs :
        (/\ t \in DOMAIN transactions
         /\ transactions[t].buyer_id = u
         /\ confirm_transaction(u, t))
        => /\ DOMAIN transactions' = DOMAIN transactions
           /\ transactions'[t].status = "completed"
           /\ \A x \in DOMAIN transactions \ {t} : transactions'[x] = transactions[x]
           /\ CarStatus' = CarStatus
           /\ ratings' = ratings]_vars

\* C11 witness: the buyer of transaction 2 has just confirmed it while
\* transaction 1 is still not completed.
C11_Witness ==
    /\ last = Response("confirm_transaction", "", "profile", 2)
    /\ DOMAIN transactions = {1, 2}
    /\ transactions[2].status = "completed"
    /\ transactions[1].status # "completed"

\* C12: a reserve by a user who does not own the listing, or naming the caller
\* or a non-existent user as buyer, a confirm by a user who is not the
\* transaction's buyer (its seller included) and a cancel by a user who is
\* neither its buyer nor its seller each leave all listings, transactions and
\* ratings unchanged.
C12_UnauthorizedNoMutation ==
    [][last'.op \in {"complete_car", "confirm_transaction", "cancel_transaction"} =>
       /\ \A u \in DOMAIN users, c \in CarInputs, b \in UserInputs :
            (/\ c \in DOMAIN cars
             /\ \/ cars[c].user_id # u
                \/ b = u
                \/ b \notin DOMAIN users
             /\ complete_car(u, c, b))
            => <<cars, transactions, ratings>>' = <<cars, transactions, ratings>>
       /\ \A u \in DOMAIN users, t \in TxInputs :
            (/\ t \in DOMAIN transactions
             /\ transactions[t].buyer_id # u
             /\ confirm_transaction(u, t))
            => <<cars, transactions, ratings>>' = <<cars, transactions, ratings>>
       /\ \A u \in DOMAIN users, t \in TxInputs :
            (/\ t \in DOMAIN transactions
             /\ u \notin {transactions[t].buyer_id, transactions[t].seller_id}
             /\ cancel_transaction(u, t))
            => <<cars, transactions, ratings>>' = <<cars, transactions, ratings>>]_vars

\* C12 witness: a cancel has just been refused although every transaction id a
\* request can name exists, one of them still pending: the caller was no party.
C12_Witness ==
    /\ last = Response("cancel_transaction",
                       "You can only cancel your own transaction.", "profile", 0)
    /\ DOMAIN transactions = TxInputs
    /\ \E t \in DOMAIN transactions : transactions[t].status = "pending"

\* Each transaction references an existing listing and each rating an existing
\* transaction.
ReferentialIntegrity ==
    /\ \A t \in DOMAIN transactions : transactions[t].car_id \in DOMAIN cars
    /\ \A r \in DOMAIN ratings : ratings[r].transaction_id \in DOMAIN transactions

\* C15: deleting a listing removes the listing row, every transaction
\* referencing it and every rating of one of those transactions and keeps every
\* other row, and in every reachable state each transaction references an
\* existing listing and each rating references an existing transaction.
C15_DeleteKeepsIntegrity ==
    /\ []ReferentialIntegrity
    /\ [][last'.op \in {"remove_car_record", "admin_delete_car"} =>
          \A u \in DOMAIN users, c \in CarInputs :
            (/\ c \in DOMAIN cars
             /\ \/ remove_car_record(u, c)
                \/ admin_required(u) /\ admin_delete_car(u, c))
            => /\ DOMAIN cars' = DOMAIN cars \ {c}
               /\ DOMAIN transactions' =
                    {t \in DOMAIN transactions : transactions[t].car_id # c}
               /\ DOMAIN ratings' =
                    {r \in DOMAIN ratings :
                        transactions[ratings[r].transaction_id].car_id # c}
               /\ \A x \in DOMAIN cars' : cars'[x] = cars[x]
               /\ \A t \in DOMAIN transactions' : transactions'[t] = transactions[t]
               /\ \A r \in DOMAIN ratings' : ratings'[r] = ratings[r]]_vars

\* C15 witness: a listing that had a transaction and a rating has just been
\* deleted and neither table has a row left.
C15_Witness ==
    /\ last = Response("remove_car_record", "", "True", 1)
    /\ cars = EmptyTable
    /\ txSeq >= 1
    /\ transactions = EmptyTable
    /\ ratingSeq >= 1
    /\ ratings = EmptyTable

\* C14: an edit of a listing is rejected, and the stored fields of every
\* listing are left unchanged, unless the caller is the listing's owner and
\* the listing's status is active.
C14_EditOnlyOwnerActive ==
    [][last'.op = "edit_car" =>
       \A u \in DOMAIN users, c \in CarInputs, f \in EditInputs, i \in ImageInputs :
        (/\ ~(/\ c \in DOMAIN cars
              /\ cars[c].user_id = u
              /\ cars[c].status = "active")
         /\ edit_car(u, c, f, i))
        => /\ cars' = cars
           /\ last'.flash \in {"Listing not found.",
                               "You can only edit your own listings.",
                               "Completed listings cannot be edited."}
           /\ last'.returns \in {"catalog", "car_details"}]_vars

\* C14 witness: the edit of a completed listing has just been refused; the
\* listing still has the fields an earlier edit gave it.
C14_Witness ==
    /\ last = Response("edit_car", "Completed listings cannot be edited.",
                       "car_details", 0)
    /\ \E c \in DOMAIN cars :
        /\ cars[c].status = "completed"
        /\ cars[c].price = ListingForms[2].price
        /\ cars[c].description = ListingForms[2].description

\* The favorites of one user.
FavoritesOf(table, u) == {p \in table : p[1] = u}

\* C16: two toggles of the same active listing by the same user, one right
\* after the other, leave that user's favorites as the first toggle found
\* them, and no toggle changes another user's favorites.
C16_ToggleTwice ==
    [][last'.op = "toggle_favorite" =>
       \A u \in DOMAIN users, c \in CarInputs :
        (/\ c \in DOMAIN cars
         /\ cars[c].status = "active"
         /\ toggle_favorite(u, c))
        => /\ \A v \in DOMAIN users \ {u} :
                FavoritesOf(favorites', v) = FavoritesOf(favorites, v)
           /\ (/\ last = Response("toggle_favorite", "", "catalog", c)
               /\ request.user = u
               /\ request.id = c)
              => FavoritesOf(favorites', u) = FavoritesOf(before, u)]_vars

\* C16 witness: a user has just toggled an active listing for the second time
\* in a row and has it among the favorites again, as the first toggle found
\* it, next to another user's favorite.
C16_Witness ==
    /\ last.op = "toggle_favorite"
    /\ last.flash = ""
    /\ request.again
    /\ <<request.user, request.id>> \notin before
    /\ <<request.user, request.id>> \in favorites
    /\ \E p \in favorites : p[1] # request.user

\* C17: a toggle on a listing that does not exist or whose status is not
\* active fails and leaves the favorites of every user unchanged.
C17_ToggleRejected ==
    [][last'.op = "toggle_favorite" =>
       \A u \in DOMAIN users, c \in CarInputs :
        (/\ c \notin DOMAIN cars \/ cars[c].status # "active"
         /\ toggle_favorite(u, c))
        => /\ favorites' = favorites
           /\ last'.flash = "Listing not found."]_vars

\* C17 witness: a toggle on a completed listing that the caller does not have
\* among the favorites has just been refused, other users having it.
C17_Witness ==
    /\ last = Response("toggle_favorite", "Listing not found.", "catalog", 0)
    /\ request.id \in DOMAIN cars
    /\ cars[request.id].status = "completed"
    /\ <<request.user, request.id>> \notin favorites
    /\ favorites # {}

\* C13: a listing's status goes from active to completed only in an accepted
\* reserve (complete_car) on that listing and from completed to active only in
\* an accepted cancel of a transaction referencing that listing; edit, confirm,
\* rate, favorite, view and messaging requests change no listing's status.
C13_StatusOnlyByTransactions ==
    [][/\ \A c \in DOMAIN cars \cap DOMAIN cars' :
            /\ (cars[c].status = "active" /\ cars'[c].status = "completed")
               => /\ last' = Response("complete_car", "", "my_listings", txSeq')
                  /\ txSeq' \notin DOMAIN transactions
                  /\ transactions'[txSeq'].car_id = c
            /\ (cars[c].status = "completed" /\ cars'[c].status = "active")
               => /\ last'.op = "cancel_transaction"
                  /\ last'.row \in DOMAIN transactions
                  /\ transactions[last'.row].car_id = c
       /\ last'.op \in {"edit_car", "confirm_transaction", "rate_transaction",
                        "toggle_favorite", "car_details", "new_message",
                        "message_thread"}
          => /\ DOMAIN cars' = DOMAIN cars
             /\ CarStatus' = CarStatus]_vars

\* C13 witness: a listing whose fields an edit has rewritten was reserved and
\* is on sale again, the transaction that referenced it just canceled.
C13_Witness ==
    /\ last.op = "cancel_transaction"
    /\ last.row \in DOMAIN transactions
    /\ transactions[last.row].status = "canceled"
    /\ cars[transactions[last.row].car_id].status = "active"
    /\ cars[transactions[last.row].car_id].price = ListingForms[2].price

\* C18: a new_message that reaches get_or_create_thread returns the id of a
\* thread of the listing, its owner and the caller, and when the same caller
\* asks for the same listing twice in a row the second call returns the id the
\* first returned and creates no thread row.
C18_GetOrCreateTwice ==
    [][last'.op = "new_message" =>
       \A u \in DOMAIN users, c \in CarInputs :
        (/\ c \in DOMAIN cars
         /\ cars[c].user_id # u
         /\ new_message(u, c))
        => /\ last'.row \in DOMAIN threads'
           /\ threads'[last'.row] =
                [car_id |-> c, seller_id |-> cars[c].user_id, buyer_id |-> u]
           /\ (/\ last.op = "new_message"
               /\ last.returns = "message_thread"
               /\ request.user = u
               /\ request.id = c)
              => /\ last'.row = last.row
                 /\ threads' = threads
                 /\ threadSeq' = threadSeq]_vars

\* C18 witness: the same caller has just asked twice in a row for the thread
\* of the same listing and there is one thread.
C18_Witness ==
    /\ last = Response("new_message", "", "message_thread", 1)
    /\ request.again
    /\ DOMAIN threads = {1}
    /\ threadSeq = 1

\* The messages a step has added.
NewMessages == DOMAIN messages' \ DOMAIN messages

\* A body with a character that is not white space.
HasText(body) == \E i \in DOMAIN body : body[i] # " "

\* What C19 says of a POST by user u on thread t, "filled" telling whether
\* the body counts as non-empty.
SendEffect(u, t, filled) ==
    IF /\ t \in DOMAIN threads
       /\ u \in {threads[t].seller_id, threads[t].buyer_id}
       /\ filled
    THEN /\ Cardinality(NewMessages) = 1
         /\ \A m \in NewMessages :
              /\ messages'[m].thread_id = t
              /\ messages'[m].sender_id = u
              /\ messages'[m].recipient_id
                    \in {threads[t].seller_id, threads[t].buyer_id} \ {u}
              /\ messages'[m].read_at = NULL
         /\ \A m \in DOMAIN messages : messages'[m] = messages[m]
    ELSE messages' = messages

\* C19 as stated: a POST on a thread by a user who is neither its seller nor
\* its buyer creates no message; by a party with a non-empty body it creates
\* exactly one message in that thread, sent by the caller to the other party,
\* read_at NULL; with an empty body it creates nothing.
C19_SendAsStated ==
    [][(last'.op = "message_thread" /\ last'.returns # "message_thread.html") =>
       \A u \in DOMAIN users, t \in ThreadInputs, body \in BodyInputs :
        message_thread(u, t, "POST", body) => SendEffect(u, t, body # <<>>)]_vars

\* C19, amended: the same with "non-empty" read as "having a character that is
\* not white space"; a body of white space only creates nothing.
C19_SendStripped ==
    [][(last'.op = "message_thread" /\ last'.returns # "message_thread.html") =>
       \A u \in DOMAIN users, t \in ThreadInputs, body \in BodyInputs :
        message_thread(u, t, "POST", body) => SendEffect(u, t, HasText(body))]_vars

\* C19 witness: a party of a thread has just posted a message, which is
\* unread and addressed to the other party.
C19_Witness ==
    /\ last = Response("message_thread", "", "message_thread", msgSeq)
    /\ msgSeq \in DOMAIN messages
    /\ messages[msgSeq].read_at = NULL
    /\ LET thread == threads[messages[msgSeq].thread_id] IN
        {messages[msgSeq].sender_id, messages[msgSeq].recipient_id}
            = {thread.seller_id, thread.buyer_id}

\* The unread messages of thread t addressed to user u, if u is a party of t.
Marked(u, t) ==
    {m \in DOMAIN messages :
        /\ t \in DOMAIN threads
        /\ u \in {threads[t].seller_id, threads[t].buyer_id}
        /\ messages[m].thread_id = t
        /\ messages[m].recipient_id = u
        /\ messages[m].read_at = NULL}

\* C20: a GET of a thread by one of its parties marks as read every unread
\* message of that thread addressed to the caller, whose unread count drops by
\* the number of those messages, and leaves every other message as it was; a
\* GET by a user who is no party marks nothing.
C20_OpenThread ==
    [][(last'.op = "message_thread" /\ last'.returns # "message_thread") =>
       \A u \in DOMAIN users, t \in ThreadInputs :
        message_thread(u, t, "GET", <<>>)
        => /\ DOMAIN messages' = DOMAIN messages
           /\ \A m \in Marked(u, t) :
                /\ messages'[m].read_at # NULL
                /\ [messages'[m] EXCEPT !.read_at = NULL] = messages[m]
           /\ \A m \in DOMAIN messages \ Marked(u, t) : messages'[m] = messages[m]
           /\ unread_count(messages', u)
                = unread_count(messages, u) - Cardinality(Marked(u, t))]_vars

\* C20 witness: a party has just opened a thread; a message to that party in
\* the thread is read, a message to the other party in the same thread and a
\* message to the first party in another thread are still unread.
C20_Witness ==
    /\ last = Response("message_thread", "", "message_thread.html", 0)
    /\ \E m1, m2, m3 \in DOMAIN messages :
        /\ messages[m1].read_at # NULL
        /\ messages[m2].thread_id = messages[m1].thread_id
        /\ messages[m2].recipient_id # messages[m1].recipient_id
        /\ messages[m2].read_at = NULL
        /\ messages[m3].thread_id # messages[m1].thread_id
        /\ messages[m3].recipient_id = messages[m1].recipient_id
        /\ messages[m3].read_at = NULL

\* Every stored rating has its four scores in 1..5.
ScoresInRange ==
    \A r \in DOMAIN ratings :
        {ratings[r].reliability, ratings[r].accuracy,
         ratings[r].communication, ratings[r].product} \subseteq 1 .. 5

\* C23: a rate request with one of the four scores not an integer in 1..5
\* writes nothing, whatever the state of the transaction, and in every
\* reachable state every stored rating has its four scores in 1..5.
C23_ScoresValidated ==
    /\ []ScoresInRange
    /\ [][last'.op = "rate_transaction" =>
          \A u \in DOMAIN users, t \in TxInputs, f \in FormInputs :
            (/\ ~({RateForms[f].reliability, RateForms[f].accuracy,
                   RateForms[f].communication, RateForms[f].product} \subseteq 1 .. 5)
             /\ rate_transaction(u, t, f))
            => /\ ratings' = ratings
               /\ ratingSeq' = ratingSeq]_vars

\* C23 witness: a rate request has just been refused for its scores although
\* a completed transaction, already rated, was there to be rated.
C23_Witness ==
    /\ last = Response("rate_transaction",
                       "All ratings must be between 1 and 5.", "profile", 0)
    /\ \E r \in DOMAIN ratings :
        /\ ratings[r].transaction_id \in DOMAIN transactions
        /\ transactions[ratings[r].transaction_id].status = "completed"

\* The buyer of a transaction is not its seller, and its seller owns the
\* listing it references.
TxIdentities ==
    \A t \in DOMAIN transactions :
        /\ transactions[t].buyer_id # transactions[t].seller_id
        /\ transactions[t].car_id \in DOMAIN cars
        /\ cars[transactions[t].car_id].user_id = transactions[t].seller_id

\* C24: in every reachable state every transaction's buyer differs from its
\* seller and its seller is the owner of the listing it references, and no
\* step changes the listing, seller or buyer of an existing transaction.
C24_TxIdentities ==
    /\ []TxIdentities
    /\ [][\A t \in DOMAIN transactions \cap DOMAIN transactions' :
            /\ transactions'[t].car_id = transactions[t].car_id
            /\ transactions'[t].seller_id = transactions[t].seller_id
            /\ transactions'[t].buyer_id = transactions[t].buyer_id]_vars

\* C24 witness: two transactions of one seller with two different buyers, the
\* second one just confirmed by its buyer.
C24_Witness ==
    /\ last = Response("confirm_transaction", "", "profile", 2)
    /\ DOMAIN transactions = {1, 2}
    /\ transactions[1].seller_id = transactions[2].seller_id
    /\ transactions[1].buyer_id # transactions[2].buyer_id
    /\ transactions[2].status = "completed"

\* C27: a request to the listing-delete endpoint by a logged-in user who is
\* neither the owner of the listing nor an admin leaves the listing, its
\* transactions and its ratings unchanged.
C27_DeleteOnlyByOwnerOrAdmin ==
    [][last'.op \in {"remove_car_record", "admin_delete_car"} =>
       \A u \in DOMAIN users, c \in CarInputs :
        (/\ c \in DOMAIN cars
         /\ cars[c].user_id # u
         /\ ~users[u].is_admin
         /\ remove_car_record(u, c) \/ admin_delete_car(u, c))
        => <<cars, transactions, ratings>>' = <<cars, transactions, ratings>>]_vars

\* The messages flashed for posted files that are refused.
ImageFlashes ==
    {"Only JPG and PNG images are allowed.", "You can upload up to 15 photos.",
     "You can upload up to 15 photos total."}

\* C28: an add_listing or edit_car request that is rejected because its
\* images fail validation or exceed the photo limit creates no listing row and
\* changes no field of an existing listing.
C28_RejectedImagesNoMutation ==
    [][(last'.op \in {"add_listing", "edit_car"} /\ last'.flash \in ImageFlashes)
       => cars' = cars]_vars

\* C29: while a listing's status is completed, no step changes any of its
\* stored fields other than the status.
C29_CompletedFieldsFrozen ==
    [][\A c \in DOMAIN cars \cap DOMAIN cars' :
        cars[c].status = "completed"
        => [cars'[c] EXCEPT !.status = cars[c].status] = cars[c]]_vars

\* C21: a verification request changes the users table only if the caller
\* opted in and at that moment is the seller of at least five completed
\* transactions, and then only by setting the caller's verified flag; a
\* confirm, which is what completes a sale, leaves the users table as it is.
C21_VerifyOnlyWhenEarned ==
    [][last'.op \in {"verify_seller", "confirm_transaction"} =>
       /\ \A u \in DOMAIN users, agree \in {"yes", ""} :
            verify_seller(u, agree)
            => IF /\ agree = "yes"
                  /\ Cardinality({t \in DOMAIN transactions :
                                     /\ transactions[t].seller_id = u
                                     /\ transactions[t].status = "completed"}) >= 5
               THEN /\ users'[u].verified
                    /\ [users' EXCEPT ![u].verified = users[u].verified] = users
               ELSE users' = users
       /\ last'.op = "confirm_transaction" => users' = users]_vars

\* C21 witness: the seller of five completed transactions, not verified until
\* then, has just opted in and is verified.
C21_Witness ==
    /\ last = Response("verify_seller", "Your seller profile is now verified.",
                       "profile", 2)
    /\ users[2].verified
    /\ Cardinality({t \in DOMAIN transactions :
                       /\ transactions[t].seller_id = 2
                       /\ transactions[t].status = "completed"}) = 5

\* C22: once a user's verified flag is true, no step sets it back to false.
C22_VerifiedMonotonic ==
    [][\A u \in DOMAIN users : users[u].verified => users'[u].verified]_vars

\* The seller of a thread is not its buyer and owns the thread's listing,
\* while that listing exists.
ThreadIdentities ==
    \A t \in DOMAIN threads :
        /\ threads[t].seller_id # threads[t].buyer_id
        /\ threads[t].car_id \in DOMAIN cars
           => cars[threads[t].car_id].user_id = threads[t].seller_id

\* The sender and the recipient of a message are the two parties of its thread.
MessageParties ==
    \A m \in DOMAIN messages :
        /\ messages[m].thread_id \in DOMAIN threads
        /\ messages[m].sender_id # messages[m].recipient_id
        /\ {messages[m].sender_id, messages[m].recipient_id}
             = {threads[messages[m].thread_id].seller_id,
                threads[messages[m].thread_id].buyer_id}

\* C30: in every reachable state every thread's seller differs from its buyer
\* and every message's sender and recipient are the two distinct parties of
\* its thread; a thread is created with the owner of its listing as seller;
\* and no step resets a read timestamp that is set.
C30_MessagingIdentities ==
    /\ [](ThreadIdentities /\ MessageParties)
    /\ [][/\ \A t \in DOMAIN threads' \ DOMAIN threads :
               /\ threads'[t].car_id \in DOMAIN cars
               /\ cars[threads'[t].car_id].user_id = threads'[t].seller_id
          /\ \A m \in DOMAIN messages :
               messages[m].read_at # NULL
               => m \in DOMAIN messages' /\ messages'[m].read_at # NULL]_vars

\* C30 witness: there are two threads, and a message has just been posted to
\* the sender of an earlier message that has been read.
C30_Witness ==
    /\ last.op = "message_thread"
    /\ last.row \in DOMAIN messages
    /\ DOMAIN threads = {1, 2}
    /\ \E m \in DOMAIN messages :
        /\ m # last.row
        /\ messages[m].read_at # NULL
        /\ messages[m].sender_id = messages[last.row].recipient_id

\* C25: with get_or_create_thread called by several workers at once, the
\* SELECT and the INSERT of a call being two steps, there is in every
\* reachable state at most one thread per (listing, seller, buyer).
C25_OneThreadPerTriple ==
    \A t1, t2 \in DOMAIN threads : threads[t1] = threads[t2] => t1 = t2

\* C26: the status flip and the transaction insert of complete_car are one
\* atomic step: in every state a concurrent reader can observe, a listing
\* whose status is completed has at least one transaction row referencing it.
C26_ReserveAtomic ==
    \A c \in DOMAIN cars :
        cars[c].status = CAR_STATUS_COMPLETED =>
            \E t \in DOMAIN transactions : transactions[t].car_id = c

\* A worker has executed the UPDATE and not yet committed, while another
\* request has passed its checks; readers still find the listing on sale and
\* no transaction for it.
C26_Witness ==
    \E k, j \in Workers :
        /\ calls[k].op = "complete_car"
        /\ calls[k].pc = "updated"
        /\ calls[j].pc = "checked"
        /\ calls[k].car_id \in DOMAIN cars
        /\ cars[calls[k].car_id].status = CAR_STATUS_ACTIVE
        /\ TxOfCar(calls[k].car_id) = {}

====
